---- MODULE Spec2Model ----
(***************************************************************************)
(* A model of semgrep/rule_lang.py: the source registry (SourceTracker),   *)
(* the Position / Span algebra, the span-annotated tree (YamlTree, YamlMap)*)
(* and the registration step of parse_yaml_preserve_spans.                 *)
(*                                                                         *)
(* A text is a sequence of characters.  An Optional value is a sequence of *)
(* length 0 (None) or 1.                                                   *)
(***************************************************************************)
EXTENDS Integers, Sequences, FiniteSets, TLC

VARIABLES
    sources,    \* SourceTracker.sources: hash -> list of lines
    calls,      \* history of the add_source calls made so far
    pc,         \* per thread: position inside add_source
    arg,        \* per thread: the text being registered
    fh,         \* per thread: the local file_hash
    res,        \* the Span in hand: what the last Span operation returned
    op,         \* the last operation and its arguments
    parsed,     \* whether the span in hand descends from a parse
    err,        \* the exception raised by the last operation, if any
    pos,        \* the Position last returned by next_line/previous_line
    value,      \* the plain nested value handed to wrap
    tree,       \* the YamlTree wrap returned
    out,        \* the plain value unroll returned
    internal,   \* YamlMap._internal: ordered entries, keyed by key-tree object
    inserted,   \* history of the __setitem__ calls made so far
    got         \* the result of the last get

regVars  == <<calls>>
concVars == <<pc, arg, fh>>
spanVars == <<res, op, parsed, err, pos>>
treeVars == <<value, tree, out>>
mapVars  == <<internal, inserted, got>>
vars == <<sources, calls, pc, arg, fh, res, op, parsed, err, pos,
          value, tree, out, internal, inserted, got>>

None == <<>>
Some(x) == <<x>>
Present(opt) == opt # None
Get(opt) == opt[1]

Max(a, b) == IF a >= b THEN a ELSE b
Min(a, b) == IF a <= b THEN a ELSE b

(***************************************************************************)
(* Bounds of the model.                                                    *)
(***************************************************************************)
MaxTextLen == 2     \* longest text handed to add_source
MaxCalls == 3       \* add_source calls in one history
MaxArg == 2         \* largest line count handed to truncate / with_context
MaxPosLine == 4     \* next_line is not followed past this line
MaxLen == 2         \* longest list and largest mapping handed to wrap
MaxInserts == 3     \* assignments to one YamlMap

(***************************************************************************)
(* Texts.                                                                  *)
(***************************************************************************)
NL == "\n"
Alphabet == {"a", NL}

RECURSIVE SeqsUpTo(_, _)
SeqsUpTo(S, n) ==
    IF n = 0 THEN {<<>>}
    ELSE LET shorter == SeqsUpTo(S, n - 1)
         IN  shorter \cup {Append(s, c) : s \in {t \in shorter : Len(t) = n - 1}, c \in S}

Texts == SeqsUpTo(Alphabet, MaxTextLen)

\* The document parsed at import time to derive EmptySpan: "a: b".
EmptyDoc == <<"a", ":", " ", "b">>

\* Threads register these: two of them have equal length, two have equal lines.
ConcTexts == {EmptyDoc, <<"a">>, <<"a", NL>>, <<NL, "a">>}

(***************************************************************************)
(* SourceTracker                                                           *)
(***************************************************************************)
\* str.encode("utf-8") on the characters used here.
Utf8(c) ==
    CASE c = "a" -> 97
      [] c = "b" -> 98
      [] c = ":" -> 58
      [] c = " " -> 32
      [] c = NL  -> 10

encode(contents) == [i \in 1..Len(contents) |-> Utf8(contents[i])]

\* A digest that forgets everything but the length: distinct texts collide.
HashByLength(contents) == [sha256 |-> <<Len(contents)>>]

\* hashlib.sha256(...).hexdigest(): a digest determined by the bytes, and
\* (no collisions) determining them.
_src_to_hash(contents) == [sha256 |-> encode(contents)]

\* str.splitlines(): a line ends at a line break, which is dropped; the text
\* after the last break is a line only when it is not empty.
RECURSIVE SplitFrom(_, _, _, _)
SplitFrom(s, i, line, lines) ==
    IF i > Len(s)
    THEN IF line = <<>> THEN lines ELSE Append(lines, line)
    ELSE IF s[i] = NL
         THEN SplitFrom(s, i + 1, <<>>, Append(lines, line))
         ELSE SplitFrom(s, i + 1, Append(line, s[i]), lines)

splitlines(s) == SplitFrom(s, 1, <<>>, <<>>)

\* cls.sources[file_hash] = lines
Store(reg, h, lines) ==
    [k \in DOMAIN reg \cup {h} |-> IF k = h THEN lines ELSE reg[k]]

\* add_source that appends to an entry the registry already holds.
AddSourceAppending(reg, source) ==
    LET file_hash == _src_to_hash(source)
    IN  [sources |-> Store(reg, file_hash,
                           IF file_hash \in DOMAIN reg
                           THEN reg[file_hash] \o splitlines(source)
                           ELSE splitlines(source)),
         file_hash |-> file_hash]

\* SourceTracker.add_source: the registry it leaves and the hash it returns.
add_source(reg, source) ==
    LET file_hash == _src_to_hash(source)
    IN  [sources |-> Store(reg, file_hash, splitlines(source)),
         file_hash |-> file_hash]

\* SourceTracker.source: fails (KeyError) when the hash is not a key.
Registered(reg, h) == h \in DOMAIN reg
source(reg, h) == reg[h]

\* The registry after the module is imported: EmptySpan's parse has run.
EmptyRegistry == [k \in {} |-> <<>>]

(***************************************************************************)
(* Position                                                                *)
(***************************************************************************)
Position(line, col) == [line |-> line, col |-> col]

next_line(p) == [p EXCEPT !.line = p.line + 1]
previous_line(p) == [p EXCEPT !.line = p.line - 1]

\* (line, col) order.
PosLeq(p, q) == p.line < q.line \/ (p.line = q.line /\ p.col <= q.col)

(***************************************************************************)
(* Span                                                                    *)
(***************************************************************************)
Span(start, end, source_hash, file) ==
    [start |-> start, end |-> end, source_hash |-> source_hash, file |-> file,
     context_start |-> None, context_end |-> None]

\* The mark the grammar parser puts at offset i of the text: 0-indexed line
\* and column.
LineBreaksBefore(text, i) == Cardinality({j \in 1..i : text[j] = NL})
LineStart(text, i) ==
    LET breaks == {j \in 1..i : text[j] = NL}
    IN  IF breaks = {} THEN 0 ELSE CHOOSE j \in breaks : \A k \in breaks : k <= j
Mark(text, i) == [line |-> LineBreaksBefore(text, i), column |-> i - LineStart(text, i)]

\* The nodes the grammar parser can hand to construct_object for a text: a
\* node starts and ends at offsets of the text, the end not before the start.
Nodes(text) ==
    {[start_mark |-> Mark(text, ij[1]), end_mark |-> Mark(text, ij[2])] :
        ij \in {p \in (0..Len(text)) \X (0..Len(text)) : p[1] <= p[2]}}

\* The root node of "a: b": the whole line.
EmptyDocRoot == [start_mark |-> Mark(EmptyDoc, 0), end_mark |-> Mark(EmptyDoc, Len(EmptyDoc))]

\* Span.from_node
from_node(node, source_hash, filename) ==
    Span(Position(node.start_mark.line + 1, node.start_mark.column + 1),
         Position(node.end_mark.line + 1, node.end_mark.column + 1),
         source_hash, filename)

\* truncate that cuts one line too early.
TruncateOffByOne(span, lines) ==
    IF span.end.line - span.start.line >= lines
    THEN [span EXCEPT !.end = Position(span.start.line + lines, 0),
                      !.context_end = None]
    ELSE span

\* Span.truncate
truncate(span, lines) ==
    IF span.end.line - span.start.line > lines
    THEN [span EXCEPT !.end = Position(span.start.line + lines, 0),
                      !.context_end = None]
    ELSE span

\* extend_to that moves the core range even when asked for context only.
ExtendCoreAlways(span, to, context_only) ==
    [span EXCEPT !.end = to.end, !.context_end = to.context_end]

\* Span.extend_to.  A Position is an object without __bool__ or __len__, so
\* `span.context_end or span.end` is span.end exactly when context_end is None.
extend_to(span, to, context_only) ==
    IF context_only
    THEN [span EXCEPT !.context_end =
              IF to.context_end # None THEN to.context_end ELSE Some(to.end)]
    ELSE [span EXCEPT !.end = to.end, !.context_end = to.context_end]

\* with_context that forgets to clamp the context to the source's length.
WithContextUnclamped(span, before, after, reg) ==
    LET new == IF before # None
               THEN [span EXCEPT !.context_start =
                         Some(Position(Max(0, span.start.line - before[1]), 0))]
               ELSE span
    IN  IF after # None
        THEN [new EXCEPT !.context_end = Some(Position(span.end.line + after[1], 0))]
        ELSE new

\* with_context that counts `before` forwards from the start line.
WithContextForward(span, before, after, reg) ==
    LET new == IF before # None
               THEN [span EXCEPT !.context_start =
                         Some(Position(span.start.line + before[1], span.start.col))]
               ELSE span
    IN  IF after # None
        THEN [new EXCEPT !.context_end =
                  Some(Position(Min(Len(source(reg, span.source_hash)),
                                    span.end.line + after[1]), 0))]
        ELSE new

\* Span.with_context, where it returns: `before` and `after` are Optional.
with_context(span, before, after, reg) ==
    LET new == IF before # None
               THEN [span EXCEPT !.context_start =
                         Some(Position(Max(0, span.start.line - before[1]), 0))]
               ELSE span
    IN  IF after # None
        THEN [new EXCEPT !.context_end =
                  Some(Position(Min(Len(source(reg, span.source_hash)),
                                    span.end.line + after[1]), 0))]
        ELSE new

\* Span.with_context raises KeyError, from SourceTracker.source, exactly when
\* `after` is given and the span's hash is not a key of the registry.
with_context_raises(span, after, reg) ==
    after # None /\ ~Registered(reg, span.source_hash)

\* The Positions a caller can read from a Span.
PositionsOf(span) ==
    {span.start, span.end}
        \cup {span.context_start[i] : i \in DOMAIN span.context_start}
        \cup {span.context_end[i] : i \in DOMAIN span.context_end}

\* A parse that builds its spans without registering the text.
ParseWithoutRegistering(reg, contents) ==
    [sources |-> reg, source_hash |-> _src_to_hash(contents)]

\* parse_yaml_preserve_spans: the registry it leaves, and the hash that
\* construct_object stamps on the span of every node.
parse_yaml_preserve_spans(reg, contents) ==
    LET added == add_source(reg, contents)
    IN  [sources |-> added.sources, source_hash |-> added.file_hash]

\* EmptySpan = parse_yaml_preserve_spans("a: b", None).span
EmptySpan ==
    from_node(EmptyDocRoot,
              parse_yaml_preserve_spans(EmptyRegistry, EmptyDoc).source_hash, None)

\* The registry after the module is imported: EmptySpan's parse has run.
ImportedRegistry == parse_yaml_preserve_spans(EmptyRegistry, EmptyDoc).sources

(***************************************************************************)
(* Spans under parse, truncate, extend_to, with_context and the Position   *)
(* methods.  `res` is the span in hand; each Span operation takes it as    *)
(* receiver and returns the next one.                                      *)
(***************************************************************************)
\* The documents parsed: "a: b" at import, without a file name, and later a
\* document of two lines, the second empty, that ends with a line break.
TwoLineDoc == <<"a", NL, NL>>
SpanDocs == {TwoLineDoc}
FileName(contents) == IF contents = EmptyDoc THEN None ELSE Some("rule.yaml")
LineCounts == 0..MaxArg
OptLineCounts == {None} \cup {Some(n) : n \in LineCounts}

Threads == {"t1", "t2"}

ParkedReg == calls = <<>>
ParkedConc ==
    /\ pc = [t \in Threads |-> "idle"]
    /\ arg = [t \in Threads |-> <<>>]
    /\ fh = [t \in Threads |-> None]
ParkedTree == value = None /\ tree = None /\ out = None
ParkedMap == internal = <<>> /\ inserted = <<>> /\ got = None

\* op.to: the span handed to the last extend_to.
\* op.cut: whether the last truncate took its truncating branch.
NoOp == [name |-> "import", lines |-> 0, before |-> None, after |-> None,
         to |-> None, context_only |-> FALSE, cut |-> FALSE]

ParkedSpan ==
    /\ res = EmptySpan /\ op = NoOp
    /\ parsed = TRUE /\ err = "none" /\ pos = None

InitSpan ==
    /\ sources = ImportedRegistry
    /\ ParkedSpan
    /\ ParkedReg /\ ParkedConc /\ ParkedTree /\ ParkedMap

\* The spans extend_to is handed: spans of nodes of the receiver's document,
\* as parsed or widened by with_context.
OtherSpans(reg, span) ==
    LET docs == {t \in SpanDocs \cup {EmptyDoc} : /\ _src_to_hash(t) = span.source_hash
                                   /\ Registered(reg, _src_to_hash(t))}
        raw == UNION {{from_node(n, span.source_hash, span.file) : n \in Nodes(d)} :
                         d \in docs}
    IN  raw \cup {with_context(o, None, Some(a), reg) : o \in raw, a \in LineCounts}

Parse(contents, node) ==
    /\ LET tracked == parse_yaml_preserve_spans(sources, contents)
       IN  /\ sources' = tracked.sources
           /\ res' = from_node(node, tracked.source_hash, FileName(contents))
    /\ op' = [NoOp EXCEPT !.name = "parse"]
    /\ parsed' = TRUE
    /\ err' = "none"
    /\ pos' = None
    /\ UNCHANGED <<regVars, concVars, treeVars, mapVars>>

\* A Span built by hand around a hash that add_source never returned.
Construct(contents) ==
    /\ ~Registered(sources, _src_to_hash(contents))
    /\ res' = Span(Position(1, 1), Position(1, 1), _src_to_hash(contents), None)
    /\ op' = [NoOp EXCEPT !.name = "construct"]
    /\ parsed' = FALSE
    /\ err' = "none"
    /\ pos' = None
    /\ UNCHANGED sources
    /\ UNCHANGED <<regVars, concVars, treeVars, mapVars>>

Truncate(lines) ==
    /\ res' = truncate(res, lines)
    /\ op' = [NoOp EXCEPT !.name = "truncate", !.lines = lines,
                          !.cut = (res.end.line - res.start.line > lines)]
    /\ err' = "none"
    /\ pos' = None
    /\ UNCHANGED <<sources, parsed>>
    /\ UNCHANGED <<regVars, concVars, treeVars, mapVars>>

ExtendTo(to, context_only) ==
    /\ res' = extend_to(res, to, context_only)
    /\ op' = [NoOp EXCEPT !.name = "extend_to", !.to = Some(to),
                          !.context_only = context_only]
    /\ err' = "none"
    /\ pos' = None
    /\ UNCHANGED <<sources, parsed>>
    /\ UNCHANGED <<regVars, concVars, treeVars, mapVars>>

WithContext(before, after) ==
    /\ op' = [NoOp EXCEPT !.name = "with_context", !.before = before, !.after = after]
    /\ IF with_context_raises(res, after, sources)
       THEN err' = "KeyError" /\ res' = res
       ELSE err' = "none" /\ res' = with_context(res, before, after, sources)
    /\ pos' = None
    /\ UNCHANGED <<sources, parsed>>
    /\ UNCHANGED <<regVars, concVars, treeVars, mapVars>>

\* The Positions in hand: those of the span, and the one last returned.
Readable == PositionsOf(res) \cup {pos[i] : i \in DOMAIN pos}

NextLine(p) ==
    /\ p.line < MaxPosLine
    /\ pos' = Some(next_line(p))
    /\ op' = [NoOp EXCEPT !.name = "next_line"]
    /\ err' = "none"
    /\ UNCHANGED <<sources, res, parsed>>
    /\ UNCHANGED <<regVars, concVars, treeVars, mapVars>>

PreviousLine(p) ==
    /\ p.line > 0
    /\ pos' = Some(previous_line(p))
    /\ op' = [NoOp EXCEPT !.name = "previous_line"]
    /\ err' = "none"
    /\ UNCHANGED <<sources, res, parsed>>
    /\ UNCHANGED <<regVars, concVars, treeVars, mapVars>>

NextSpan ==
    \/ \E d \in SpanDocs : \E n \in Nodes(d) : Parse(d, n)
    \/ \E d \in SpanDocs : Construct(d)
    \/ \E n \in LineCounts : Truncate(n)
    \/ \E c \in BOOLEAN : \E o \in OtherSpans(sources, res) : ExtendTo(o, c)
    \/ \E b \in OptLineCounts, a \in OptLineCounts : WithContext(b, a)
    \/ \E p \in Readable : NextLine(p)
    \/ \E p \in Readable : PreviousLine(p)

SpecSpan == InitSpan /\ [][NextSpan]_vars

(***************************************************************************)
(* YamlTree and YamlMap                                                    *)
(*                                                                         *)
(* A plain value is [t |-> "str" | "int" | "list" | "dict", v |-> ...]: a   *)
(* list holds a sequence of plain values, a dict a sequence of             *)
(* <<key, value>> in insertion order, its keys strings and distinct.       *)
(* A YamlTree is [value |-> ..., span |-> ...], its value a scalar, a list  *)
(* of YamlTrees or a YamlMap.  A YamlMap's _internal is a dict keyed by    *)
(* YamlTree objects, which hash by identity: a sequence of entries         *)
(* [id, key, value] in insertion order, `id` the identity of the key.      *)
(***************************************************************************)
PyStr(x) == [t |-> "str", v |-> x]
PyInt(x) == [t |-> "int", v |-> x]
PyList(xs) == [t |-> "list", v |-> xs]
PyDict(kvs) == [t |-> "dict", v |-> kvs]
YamlMap(entries) == [t |-> "YamlMap", v |-> entries]
YamlTree(val, span) == [value |-> val, span |-> span]
ValueError == [t |-> "ValueError", v |-> <<>>]

IsYamlTree(x) == "span" \in DOMAIN x

\* dict[key] = val on a dict of <<key, value>> pairs with string keys: an
\* equal key keeps its place and takes the new value, a new key goes last.
DictPut(d, key, val) ==
    IF \E i \in DOMAIN d : d[i][1] = key
    THEN [i \in DOMAIN d |-> IF d[i][1] = key THEN <<key, val>> ELSE d[i]]
    ELSE Append(d, <<key, val>>)

RECURSIVE DictFrom(_, _)
DictFrom(pairs, n) ==
    IF n = 0 THEN <<>>
    ELSE DictPut(DictFrom(pairs, n - 1), pairs[n][1], pairs[n][2])

\* str(): a string is itself, an integer its decimal numeral.
str(x) == IF x.t = "str" THEN x.v ELSE ToString(x.v)

\* YamlTree.unroll.  A ValueError raised below propagates.
RECURSIVE unroll(_)
unroll(t) ==
    IF IsYamlTree(t.value) THEN unroll(t.value)
    ELSE CASE t.value.t = "list" ->
                LET xs == [i \in DOMAIN t.value.v |-> unroll(t.value.v[i])]
                IN  IF \E i \in DOMAIN xs : xs[i] = ValueError THEN ValueError
                    ELSE PyList(xs)
           [] t.value.t = "YamlMap" ->
                LET es == t.value.v
                    kvs == [i \in DOMAIN es |-> <<unroll(es[i].key), unroll(es[i].value)>>]
                IN  IF \E i \in DOMAIN kvs : ValueError \in {kvs[i][1], kvs[i][2]}
                    THEN ValueError
                    ELSE PyDict(DictFrom([i \in DOMAIN kvs |-> <<str(kvs[i][1]), kvs[i][2]>>],
                                       Len(kvs)))
           [] t.value.t \in {"str", "int"} -> t.value
           [] OTHER -> ValueError

\* wrap without the dict branch: a mapping is kept as a leaf.
RECURSIVE WrapWithoutDicts(_, _)
WrapWithoutDicts(val, span) ==
    IF IsYamlTree(val) THEN val
    ELSE IF val.t = "list"
         THEN YamlTree(PyList([i \in DOMAIN val.v |-> WrapWithoutDicts(val.v[i], span)]), span)
         ELSE YamlTree(val, span)

\* YamlTree.wrap.  The keys of the comprehension are new YamlTree objects, so
\* every item of the mapping becomes an entry of its own, in order.
RECURSIVE wrap(_, _)
wrap(val, span) ==
    IF IsYamlTree(val) THEN val
    ELSE IF val.t = "list"
         THEN YamlTree(PyList([i \in DOMAIN val.v |-> wrap(val.v[i], span)]), span)
         ELSE IF val.t = "dict"
              THEN YamlTree(YamlMap([i \in DOMAIN val.v |->
                                        [id |-> i,
                                         key |-> wrap(PyStr(val.v[i][1]), span),
                                         value |-> wrap(val.v[i][2], span)]]),
                            span)
              ELSE YamlTree(val, span)

\* self._internal[key] = value with a dict that takes two keys for the same
\* when their strings are equal.
SetItemByString(entries, keyid, key, val) ==
    IF \E i \in DOMAIN entries : entries[i].key.value = key.value
    THEN [i \in DOMAIN entries |->
             IF entries[i].key.value = key.value
             THEN [entries[i] EXCEPT !.value = val] ELSE entries[i]]
    ELSE Append(entries, [id |-> keyid, key |-> key, value |-> val])

\* YamlMap.__setitem__: self._internal[key] = value.  The same key object
\* keeps its place and takes the new value; any other key object goes last.
setitem(entries, keyid, key, val) ==
    IF \E i \in DOMAIN entries : entries[i].id = keyid
    THEN [i \in DOMAIN entries |->
             IF entries[i].id = keyid
             THEN [entries[i] EXCEPT !.value = val] ELSE entries[i]]
    ELSE Append(entries, [id |-> keyid, key |-> key, value |-> val])

\* YamlMap.items / YamlMap.keys
items(entries) == [i \in DOMAIN entries |-> <<entries[i].key, entries[i].value>>]
keys(entries) == [i \in DOMAIN entries |-> entries[i].key]

\* YamlMap.get: the first value whose key's value equals `key`, else None.
get(entries, key) ==
    LET match == SelectSeq(entries, LAMBDA e : e.key.value = PyStr(key))
    IN  IF match # <<>> THEN Some(match[1].value) ELSE None

\* YamlMap.key_tree, where it returns (StopIteration when no key matches).
key_tree(entries, key) ==
    SelectSeq(entries, LAMBDA e : e.key.value = PyStr(key))[1].key

(***************************************************************************)
(* The registry under a sequence of add_source calls.  Each call is        *)
(* recorded with the registry before and after it, the hash it returned    *)
(* and what source(hash) returned right after it.                          *)
(***************************************************************************)
InitReg ==
    /\ sources = ImportedRegistry
    /\ calls = <<>>
    /\ ParkedConc /\ ParkedSpan /\ ParkedTree /\ ParkedMap

AddSource(text) ==
    /\ Len(calls) < MaxCalls
    /\ LET added == add_source(sources, text)
       IN  /\ sources' = added.sources
           /\ calls' = Append(calls, [src |-> text,
                                      ret |-> added.file_hash,
                                      lines |-> source(added.sources, added.file_hash),
                                      pre |-> sources,
                                      post |-> added.sources])
    /\ UNCHANGED <<concVars, spanVars, treeVars, mapVars>>

NextReg ==
    /\ \E text \in Texts : AddSource(text)

SpecReg == InitReg /\ [][NextReg]_vars

(***************************************************************************)
(* The registry under concurrent parses.  A thread inside add_source first *)
(* computes file_hash (line 36), then stores the lines under it (line 37). *)
(***************************************************************************)
InitConc ==
    /\ sources = ImportedRegistry
    /\ ParkedConc
    /\ ParkedReg /\ ParkedSpan /\ ParkedTree /\ ParkedMap

ComputeHash(t, text) ==
    /\ pc[t] = "idle"
    /\ arg' = [arg EXCEPT ![t] = text]
    /\ fh' = [fh EXCEPT ![t] = Some(_src_to_hash(text))]
    /\ pc' = [pc EXCEPT ![t] = "store"]
    /\ UNCHANGED sources
    /\ UNCHANGED <<regVars, spanVars, treeVars, mapVars>>

StoreLines(t) ==
    /\ pc[t] = "store"
    /\ sources' = Store(sources, Get(fh[t]), splitlines(arg[t]))
    /\ pc' = [pc EXCEPT ![t] = "idle"]
    /\ UNCHANGED <<arg, fh>>
    /\ UNCHANGED <<regVars, spanVars, treeVars, mapVars>>

NextConc ==
    \/ \E t \in Threads, text \in ConcTexts : ComputeHash(t, text)
    \/ \E t \in Threads : StoreLines(t)

SpecConc == InitConc /\ [][NextConc]_vars

(***************************************************************************)
(* Properties of spans, checked under SpecSpan.                            *)
(***************************************************************************)
\* C1, as claimed: every span that descends from a parse has start <= end,
\* context_start (when present) <= start and context_end (when present) >= end.
SpanOrdered ==
    parsed =>
        /\ PosLeq(res.start, res.end)
        /\ Present(res.context_start) => PosLeq(Get(res.context_start), res.start)
        /\ Present(res.context_end) => PosLeq(res.end, Get(res.context_end))

\* C1, amended: truncate, extend_to and with_context never change start;
\* context_start, when present, is <= start; and start <= end is kept by
\* truncate(n) with n >= 1, by with_context and by extend_to with context_only.
SpanOrderKept ==
    /\ [](Present(res.context_start) => PosLeq(Get(res.context_start), res.start))
    /\ [][/\ op'.name \in {"truncate", "extend_to", "with_context"}
              => res'.start = res.start
          /\ (\/ op'.name = "truncate" /\ op'.lines >= 1
              \/ op'.name = "with_context"
              \/ op'.name = "extend_to" /\ op'.context_only)
              => (PosLeq(res.start, res.end) => PosLeq(res'.start, res'.end))]_vars

\* C1 witness: a truncating truncate(n), n >= 1, of a span that carries a
\* context_start, the result still ordered.
SpanOrderKeptWitness ==
    /\ parsed /\ op.name = "truncate" /\ op.cut /\ op.lines >= 1
    /\ Present(res.context_start)
    /\ res.end = Position(res.start.line + op.lines, 0)

OneIndexed ==
    parsed => \A p \in Readable : p.line >= 1 /\ p.col >= 1

\* C9: extend_to(other, context_only) with context_only changes context_end
\* alone, to other.context_end if present else other.end; without it, end
\* becomes other.end and context_end other.context_end, the rest unchanged.
ExtendToFrame ==
    [][op'.name = "extend_to" =>
          LET c == op'.context_only
              o == Get(op'.to)
          IN  /\ c => /\ res'.context_end =
                           IF Present(o.context_end) THEN o.context_end
                           ELSE Some(o.end)
                      /\ res'.end = res.end
              /\ ~c => /\ res'.end = o.end
                       /\ res'.context_end = o.context_end
              /\ res'.start = res.start
              /\ res'.source_hash = res.source_hash
              /\ res'.file = res.file
              /\ res'.context_start = res.context_start]_vars

\* C9 witness: a context-only extend_to that left the core range where a
\* truncate had put it.
ExtendToWitness ==
    /\ op.name = "extend_to" /\ op.context_only
    /\ Present(res.context_end) /\ res.end.col = 0
    /\ Get(res.context_end).line > res.end.line

\* C10: the hash of every span that descends from a parse is a key of the
\* registry and with_context does not fail on it; with_context fails only
\* on a span whose hash is not a key.
ParsedSpansRegistered ==
    /\ parsed => (Registered(sources, res.source_hash) /\ err = "none")
    /\ err = "KeyError" => ~Registered(sources, res.source_hash)

\* C10 witness: with_context(after=...) went through on a span of a document
\* parsed after import.
ParsedSpansWitness ==
    /\ parsed /\ op.name = "with_context" /\ Present(op.after) /\ err = "none"
    /\ res.source_hash = _src_to_hash(TwoLineDoc)
    /\ Present(res.context_end)

(***************************************************************************)
(* Properties of the registry, checked under SpecReg and SpecConc.         *)
(***************************************************************************)
\* C5: a later add_source of a text already added returns the hash the
\* earlier call returned, source(hash) returns the same lines after both, and
\* the later call leaves the whole registry as it found it.
RegistryStable ==
    \A i \in DOMAIN calls : \A j \in DOMAIN calls :
        (i < j /\ calls[i].src = calls[j].src) =>
            /\ calls[j].ret = calls[i].ret
            /\ calls[j].lines = calls[i].lines
            /\ calls[j].post = calls[j].pre

\* C5 witness: a text with a line break added, another text added, the first
\* added again.
RegistryStableWitness ==
    /\ Len(calls) = 3
    /\ calls[1].src = calls[3].src /\ calls[2].src # calls[1].src
    /\ calls[1].src = <<"a", NL>>
    /\ calls[2].pre # calls[2].post

\* C6: at every state every entry of the registry holds the lines of a text
\* with that hash; and a thread's store changes no entry under another hash
\* and overwrites an entry under its own hash only with an equal value.
RegistryRaceFree ==
    /\ [](\A h \in DOMAIN sources :
              \E text \in ConcTexts :
                  _src_to_hash(text) = h /\ sources[h] = splitlines(text))
    /\ [][\A t \in Threads :
              (pc[t] = "store" /\ pc'[t] = "idle") =>
                  \A h \in DOMAIN sources : sources'[h] = sources[h]]_vars

\* C6 witness: both threads are about to store the lines of the same text,
\* over an entry an earlier parse of it left, while another text's entry is
\* in the registry.
RegistryRaceWitness ==
    /\ pc["t1"] = "store" /\ pc["t2"] = "store"
    /\ arg["t1"] = arg["t2"] /\ arg["t1"] = <<"a", NL>>
    /\ Registered(sources, Get(fh["t1"]))
    /\ Registered(sources, _src_to_hash(<<NL, "a">>))

(***************************************************************************)
(* wrap followed by unroll, on every plain value within the bounds.        *)
(***************************************************************************)
Scalars == {PyStr("a"), PyInt(7)}
KeyStrings == {"a", "b"}

\* Sequences of distinct key strings.
KeySeqs == {ks \in SeqsUpTo(KeyStrings, MaxLen) :
               \A i \in DOMAIN ks : \A j \in DOMAIN ks : i # j => ks[i] # ks[j]}

\* The lists and dicts whose members are drawn from S.
Containers(S) ==
    {PyList(xs) : xs \in SeqsUpTo(S, MaxLen)}
        \cup UNION {{PyDict([i \in DOMAIN ks |-> <<ks[i], vs[i]>>]) :
                        vs \in [DOMAIN ks -> S]} : ks \in KeySeqs}

Nested == Scalars \cup Containers(Scalars)
PlainValues == Nested \cup Containers(Nested)

\* The spans handed to wrap.
WrapSpans == {EmptySpan, with_context(EmptySpan, Some(1), Some(1), ImportedRegistry)}

InitTree ==
    /\ value \in {Some(v) : v \in PlainValues}
    /\ tree = None /\ out = None
    /\ sources = ImportedRegistry
    /\ ParkedReg /\ ParkedConc /\ ParkedSpan /\ ParkedMap

Wrap(span) ==
    /\ tree' = Some(wrap(Get(value), span))
    /\ out' = None
    /\ UNCHANGED value
    /\ UNCHANGED <<sources, regVars, concVars, spanVars, mapVars>>

Unroll ==
    /\ Present(tree)
    /\ out' = Some(unroll(Get(tree)))
    /\ UNCHANGED <<value, tree>>
    /\ UNCHANGED <<sources, regVars, concVars, spanVars, mapVars>>

NextTree ==
    \/ \E span \in WrapSpans : Wrap(span)
    \/ Unroll

SpecTree == InitTree /\ [][NextTree]_vars

\* C2: unroll(wrap(v, s)) = v, list order and mapping key order included.
RoundTrip == Present(out) => out = value

\* C2 witness: a mapping with keys in the order b, a, the first holding a
\* list of two different scalars, has been wrapped and unrolled.
RoundTripWitness ==
    /\ Present(out) /\ out = value
    /\ Get(value) = PyDict(<<<<"b", PyList(<<PyInt(7), PyStr("a")>>)>>,
                             <<"a", PyDict(<<>>)>>>>)
    /\ Get(tree).span # EmptySpan

(***************************************************************************)
(* A YamlMap under assignments and lookups.  Each assignment is recorded:  *)
(* the key string, the value, and whether the key-tree was a new object.   *)
(***************************************************************************)
MapValues == {PyInt(1), PyInt(2)}

InitMap ==
    /\ internal = <<>> /\ inserted = <<>> /\ got = None
    /\ sources = ImportedRegistry
    /\ ParkedReg /\ ParkedConc /\ ParkedSpan /\ ParkedTree

\* m[YamlTree(k, span)] = YamlTree(v, span), the key-tree a new object.
SetItemNew(k, v) ==
    /\ Len(inserted) < MaxInserts
    /\ internal' = setitem(internal, Len(inserted) + 1,
                           YamlTree(PyStr(k), EmptySpan), YamlTree(v, EmptySpan))
    /\ inserted' = Append(inserted, [key |-> k, value |-> v, new |-> TRUE])
    /\ got' = None
    /\ UNCHANGED <<sources, regVars, concVars, spanVars, treeVars>>

\* m[key] = YamlTree(v, span), `key` a key-tree the map already holds.
SetItemSame(i, v) ==
    /\ Len(inserted) < MaxInserts
    /\ internal' = setitem(internal, internal[i].id, internal[i].key,
                           YamlTree(v, EmptySpan))
    /\ inserted' = Append(inserted, [key |-> internal[i].key.value.v, value |-> v,
                                     new |-> FALSE])
    /\ got' = None
    /\ UNCHANGED <<sources, regVars, concVars, spanVars, treeVars>>

GetKey(k) ==
    /\ got' = Some(get(internal, k))
    /\ UNCHANGED <<internal, inserted>>
    /\ UNCHANGED <<sources, regVars, concVars, spanVars, treeVars>>

NextMap ==
    \/ \E k \in KeyStrings, v \in MapValues : SetItemNew(k, v)
    \/ \E i \in DOMAIN internal, v \in MapValues : SetItemSame(i, v)
    \/ \E k \in KeyStrings : GetKey(k)

SpecMap == InitMap /\ [][NextMap]_vars

\* The first assignment made with key string k, if any.
FirstInserted(k) ==
    LET at == {i \in DOMAIN inserted : inserted[i].key = k}
    IN  IF at = {} THEN None
        ELSE Some(inserted[CHOOSE i \in at : \A j \in at : i <= j])

\* C7: while every assignment used a new key-tree, items() and keys() hold
\* one entry per assignment, in order, none overwritten or removed, and
\* get(k) is the value of the first assignment whose key string is k.
InsertAppend ==
    (\A i \in DOMAIN inserted : inserted[i].new) =>
        /\ Len(items(internal)) = Len(inserted)
        /\ Len(keys(internal)) = Len(inserted)
        /\ \A i \in DOMAIN inserted :
               /\ items(internal)[i][1].value = PyStr(inserted[i].key)
               /\ items(internal)[i][2].value = inserted[i].value
               /\ keys(internal)[i] = items(internal)[i][1]
        /\ \A k \in KeyStrings :
               IF Present(FirstInserted(k))
               THEN /\ Present(get(internal, k))
                    /\ Get(get(internal, k)).value = Get(FirstInserted(k)).value
               ELSE get(internal, k) = None

\* C7 witness: the map of "a: 1\na: 2": two entries under the key string "a",
\* and get("a") has returned the first value, 1.
InsertAppendWitness ==
    /\ inserted = <<[key |-> "a", value |-> PyInt(1), new |-> TRUE],
                    [key |-> "a", value |-> PyInt(2), new |-> TRUE]>>
    /\ Len(items(internal)) = 2
    /\ got = Some(Some(YamlTree(PyInt(1), EmptySpan)))
====
